---- MODULE Spec2Model ----
(***************************************************************************)
(* Falcon BMS performance monitor (src/falcon_bms_monitor.py).             *)
(*                                                                         *)
(* The model covers PerformanceMonitor: the bottleneck classifier          *)
(* (_analyze_bottleneck), the sampling thread (_monitor_loop and           *)
(* _collect_metrics), the bounded history (deque(maxlen=history_size)),    *)
(* the windowed analysis (get_bottleneck_analysis), the render loop        *)
(* (print_real_time_status) and the start/stop protocol of main().         *)
(*                                                                         *)
(* Arithmetic.  Percentages are integers.  Every contribution to a bucket  *)
(* is then a multiple of 1/30 (0.8 = 24/30, (x-85)/30, (x-85)/15 = 2(x-85) *)
(* /30, (x-90)/10 = 3(x-90)/30), so a raw bucket is held exactly as an     *)
(* integer number of 1/Unit.  A normalized score is the exact rational     *)
(* num/den of the division v / total_score.                                *)
(***************************************************************************)
EXTENDS Integers, Sequences, FiniteSets, TLC

VARIABLES
    gpu_available,    \* self.gpu_available
    providers,        \* what psutil and GPUtil can return on this machine
    running,          \* self.running
    monitor_thread,   \* self.monitor_thread: "None", "created", "started"
    metrics_history,  \* self.metrics_history, oldest first
    dequeState,       \* the deque's mutation counter, read by its iterators
    now,              \* the wall clock read by datetime.now()
    samplerPc,        \* position of the sampling thread in _monitor_loop
    pending,          \* the sampling thread's local `metrics`
    mainPc,           \* position of the main thread
    current,          \* print_real_time_status's local `current`
    cutoff_time,      \* get_bottleneck_analysis's local `cutoff_time`
    iter,             \* the deque iterator of the list comprehension
    recent_metrics,   \* get_bottleneck_analysis's local `recent_metrics`
    analysis,         \* print_real_time_status's local `analysis`
    lastError,        \* the exception last caught by the render loop
    screen,           \* what the console shows since the last clear
    interrupted,      \* a KeyboardInterrupt has been delivered
    nCollected,       \* number of SystemMetrics objects constructed
    pushed,           \* ids of the objects appended so far, in append order
    pushedAfterStop   \* an append completed after stop_monitoring returned

vars == <<gpu_available, providers, running, monitor_thread, metrics_history, dequeState,
          now, samplerPc, pending, mainPc, current, cutoff_time, iter,
          recent_metrics, analysis, lastError, screen, interrupted, nCollected,
          pushed, pushedAfterStop>>

-----------------------------------------------------------------------------
(* Bounds of the model *)

\* history_size passed to PerformanceMonitor (default 300)
HistorySize == 2

\* window_seconds passed to get_bottleneck_analysis (30 in the render loop), in ticks
WindowSeconds == 2

\* the clock runs from 0 to MaxTime
MaxTime == 4

-----------------------------------------------------------------------------
(* Values *)

\* Python's None
PyNone == [py |-> "None"]

\* the console after os.system('clear')
Blank == [gpu |-> "", falcon |-> "", primary |-> "", recommendations |-> <<>>]

\* keys of the scores dict in insertion order
Labels == <<"CPU", "Memory", "GPU", "GPU_Memory", "None">>

LabelSet == {Labels[i] : i \in 1..Len(Labels)}

\* denominator of the fixed-point raw buckets: 1.0 == Unit
Unit == 30

\* k/10 as a raw bucket value
Tenths(k) == (k * Unit) \div 10

thresholds ==
    [cpu_high |-> 85, memory_high |-> 85, gpu_high |-> 90, gpu_memory_high |-> 85]

\* a SystemMetrics object as constructed by _collect_metrics, before
\* classification; `source` is not a field of the dataclass: it records the
\* provider reads the values came from
SystemMetrics(id, ts, cpu, cores, mem, gpu, gpumem, falcon, source) ==
    [id |-> id,
     source |-> source,
     timestamp |-> ts,
     cpu_percent |-> cpu,
     cpu_per_core |-> cores,
     memory_percent |-> mem,
     gpu_utilization |-> gpu,
     gpu_memory_percent |-> gpumem,
     falcon_bms_cpu |-> falcon,
     bottleneck |-> "",
     bottleneck_score |-> <<>>]

-----------------------------------------------------------------------------
(* _analyze_bottleneck *)

RECURSIVE SeqMax(_)
\* max() of a non-empty list
SeqMax(s) ==
    IF Len(s) = 1 THEN s[1]
    ELSE LET r == SeqMax(Tail(s)) IN IF s[1] >= r THEN s[1] ELSE r

\* line 123
max_core_usage(m) == IF m.cpu_per_core # <<>> THEN SeqMax(m.cpu_per_core) ELSE 0

\* CoreTier with the thresholds included in the upper tier (>= for >)
CoreTierInclusive(mc) ==
    IF mc >= 85 THEN Tenths(8)
    ELSE IF mc >= 70 THEN Tenths(5)
    ELSE IF mc >= 60 THEN Tenths(3)
    ELSE 0

\* CoreTier without its lowest tier (the elif of line 130 missing)
CoreTierWithoutLowest(mc) ==
    IF mc > 85 THEN Tenths(8)
    ELSE IF mc > 70 THEN Tenths(5)
    ELSE 0

\* lines 126-131: the tier of the busiest core
CoreTier(mc) ==
    IF mc > 85 THEN Tenths(8)
    ELSE IF mc > 70 THEN Tenths(5)
    ELSE IF mc > 60 THEN Tenths(3)
    ELSE 0

\* (cpu_percent - cpu_high) / 30.0
OverallExcess(cpu) ==
    IF cpu > thresholds.cpu_high THEN ((cpu - thresholds.cpu_high) * Unit) \div 30 ELSE 0

\* FalconTier with two independent tests (if / if for if / elif)
FalconTierAdditive(f) ==
    (IF f > 150 THEN Tenths(4) ELSE 0) + (IF f > 100 THEN Tenths(2) ELSE 0)

\* lines 138-141: the tier of the Falcon BMS process
FalconTier(f) ==
    IF f > 150 THEN Tenths(4)
    ELSE IF f > 100 THEN Tenths(2)
    ELSE 0

\* scores['CPU'] after lines 122-141
CpuScore(m) ==
    CoreTier(max_core_usage(m)) + OverallExcess(m.cpu_percent) + FalconTier(m.falcon_bms_cpu)

\* (memory_percent - memory_high) / 15.0
MemoryScore(m) ==
    IF m.memory_percent > thresholds.memory_high
    THEN ((m.memory_percent - thresholds.memory_high) * Unit) \div 15
    ELSE 0

\* GpuScores without the test of self.gpu_available
GpuScoresUnguarded(m, gpu) ==
    [GPU |-> IF m.gpu_utilization > thresholds.gpu_high
             THEN ((m.gpu_utilization - thresholds.gpu_high) * Unit) \div 10
             ELSE 0,
     GPU_Memory |-> IF m.gpu_memory_percent > thresholds.gpu_memory_high
                    THEN ((m.gpu_memory_percent - thresholds.gpu_memory_high) * Unit) \div 15
                    ELSE 0]

\* the two buckets filled under `if self.gpu_available:`
GpuScores(m, gpu) ==
    IF gpu
    THEN [GPU |-> IF m.gpu_utilization > thresholds.gpu_high
                  THEN ((m.gpu_utilization - thresholds.gpu_high) * Unit) \div 10
                  ELSE 0,
          GPU_Memory |-> IF m.gpu_memory_percent > thresholds.gpu_memory_high
                         THEN ((m.gpu_memory_percent - thresholds.gpu_memory_high) * Unit) \div 15
                         ELSE 0]
    ELSE [GPU |-> 0, GPU_Memory |-> 0]

\* the scores dict when line 155 is reached
ResourceScores(m, gpu) ==
    [l \in LabelSet |->
        CASE l = "CPU" -> CpuScore(m)
          [] l = "Memory" -> MemoryScore(m)
          [] l = "GPU" -> GpuScores(m, gpu).GPU
          [] l = "GPU_Memory" -> GpuScores(m, gpu).GPU_Memory
          [] OTHER -> 0]

RECURSIVE MaxValue(_, _)
\* max(scores.values()) over the keys ls
MaxValue(scores, ls) ==
    IF Len(ls) = 1 THEN scores[ls[1]]
    ELSE LET r == MaxValue(scores, Tail(ls)) IN
         IF scores[ls[1]] >= r THEN scores[ls[1]] ELSE r

RECURSIVE SumValues(_, _)
\* sum(scores.values()) over the keys ls
SumValues(scores, ls) ==
    IF ls = <<>> THEN 0 ELSE scores[ls[1]] + SumValues(scores, Tail(ls))

\* NoneRule firing also at exactly 0.3 (<= for <)
NoneRuleInclusive(scores) ==
    IF MaxValue(scores, Labels) <= Tenths(3)
    THEN [scores EXCEPT !["None"] = Unit]
    ELSE scores

\* NoneRule left out
NoneRuleMissing(scores) == scores

\* NoneRule clearing the resource buckets when it fires
NoneRuleZeroing(scores) ==
    IF MaxValue(scores, Labels) < Tenths(3)
    THEN [l \in LabelSet |-> IF l = "None" THEN Unit ELSE 0]
    ELSE scores

\* if max_score < 0.3: scores['None'] = 1.0
NoneRule(scores) ==
    IF MaxValue(scores, Labels) < Tenths(3)
    THEN [scores EXCEPT !["None"] = Unit]
    ELSE scores

\* Normalize dividing by max_score instead of total_score
NormalizeByMax(scores) ==
    LET max_score == MaxValue(scores, Labels) IN
    IF max_score > 0
    THEN [l \in LabelSet |-> [num |-> scores[l], den |-> max_score]]
    ELSE [l \in LabelSet |-> [num |-> scores[l], den |-> Unit]]

\* scores = {k: v / total_score ...} when total_score > 0, else the raw values
Normalize(scores) ==
    LET total_score == SumValues(scores, Labels) IN
    IF total_score > 0
    THEN [l \in LabelSet |-> [num |-> scores[l], den |-> total_score]]
    ELSE [l \in LabelSet |-> [num |-> scores[l], den |-> Unit]]

\* a < b for rationals with positive denominators
RatLess(a, b) == a.num * b.den < b.num * a.den

\* a = b for rationals with positive denominators
RatEq(a, b) == a.num * b.den = b.num * a.den

RECURSIVE MaxItemLast(_, _, _)
\* MaxItem keeping the last of several equal maxima (>= for >)
MaxItemLast(scores, ls, best) ==
    IF ls = <<>> THEN best
    ELSE MaxItemLast(scores, Tail(ls),
                     IF RatLess(scores[ls[1]], scores[best]) THEN best ELSE ls[1])

RECURSIVE MaxItem(_, _, _)
\* max(scores.items(), key=lambda x: x[1])[0]: the first item that no later
\* item exceeds; the running best is replaced only by a strictly larger one
MaxItem(scores, ls, best) ==
    IF ls = <<>> THEN best
    ELSE MaxItem(scores, Tail(ls),
                 IF RatLess(scores[best], scores[ls[1]]) THEN ls[1] ELSE best)

\* _analyze_bottleneck: <<bottleneck, scores>>
AnalyzeBottleneck(m, gpu) ==
    LET scores == Normalize(NoneRule(ResourceScores(m, gpu))) IN
    <<MaxItem(scores, Tail(Labels), Labels[1]), scores>>

\* Classified without the assignment of line 219
DropsLabel(m, gpu) ==
    LET r == AnalyzeBottleneck(m, gpu) IN
    [m EXCEPT !.bottleneck_score = r[2]]

\* lines 218-220: the classifier's result stored into the metrics object
Classified(m, gpu) ==
    LET r == AnalyzeBottleneck(m, gpu) IN
    [m EXCEPT !.bottleneck = r[1], !.bottleneck_score = r[2]]

-----------------------------------------------------------------------------
(* What the providers can return *)

\* one pass of psutil / GPUtil reads, as _collect_metrics can see it:
\*   gpuRead  GPUtil.getGPUs(): "ok", "empty" (no GPU listed), "error" (raises)
\*   lookup   psutil.process_iter(['pid', 'name']): "found" (a Falcon BMS
\*            process), "absent" (none, or psutil.Process(pid) raised
\*            NoSuchProcess / AccessDenied), "unnamed" (a process whose name
\*            psutil could not read is met first: info['name'] is None)
\*   procRead cpu_percent() / memory_info() of the process found: "ok", or
\*            "denied" (NoSuchProcess / AccessDenied raised)
Reading(cpu, cores, mem, gpuRead, gpu, gpumem, lookup, procRead, falcon) ==
    [cpu |-> cpu, cores |-> cores, mem |-> mem,
     gpuRead |-> gpuRead, gpu |-> gpu, gpumem |-> gpumem,
     lookup |-> lookup, procRead |-> procRead, falcon |-> falcon]

\* a machine on which every read succeeds: idle without Falcon BMS, or loaded
\* with Falcon BMS running; a process without a readable name may be listed
ProviderReadings ==
    { Reading(10, <<10, 5>>, 40, "ok", 20, 30, "absent", "ok", 0),
      Reading(88, <<90, 20>>, 95, "ok", 95, 30, "found", "ok", 120),
      Reading(10, <<10, 5>>, 40, "ok", 20, 30, "unnamed", "ok", 0) }

\* passes in which one source is unavailable, or Falcon BMS is found idle
FailureReadings ==
    { Reading(88, <<90, 20>>, 95, "error", 95, 30, "found", "ok", 120),
      Reading(88, <<90, 20>>, 95, "empty", 0, 0, "absent", "ok", 0),
      Reading(88, <<90, 20>>, 95, "ok", 95, 30, "found", "denied", 120),
      Reading(10, <<10, 5>>, 40, "ok", 20, 30, "found", "ok", 0) }

\* the machines the monitor is run on: the readings one run can meet
Machines == {ProviderReadings} \cup {{r} : r \in FailureReadings}

\* the per-core lists, percentages and process loads a SystemMetrics can hold
CoreLists == { <<>>, <<10>>, <<60, 10>>, <<20, 61>>, <<70, 71>>, <<85, 85>>, <<90, 86>> }

CpuValues == {10, 50, 85, 86, 88, 94}

FalconValues == {0, 100, 101, 150, 151}

MemoryValues == {40, 85, 86, 90, 95, 97}

GpuValues == {0, 90, 91, 93, 98}

GpuMemoryValues == {0, 85, 89, 90, 97}

\* every unclassified SystemMetrics over these values
AllMetrics ==
    { SystemMetrics(1, 0, cpu, cores, mem, gpu, gpumem, falcon, PyNone) :
        cpu \in CpuValues, cores \in CoreLists, mem \in MemoryValues,
        gpu \in GpuValues, gpumem \in GpuMemoryValues, falcon \in FalconValues }

\* _get_gpu_metrics: the first GPU's readings; zeros when GPUtil is missing,
\* lists no GPU, or raises (lines 92-95)
GetGpuMetrics(r, gpu) ==
    IF gpu /\ r.gpuRead = "ok"
    THEN [gpu |-> r.gpu, gpumem |-> r.gpumem]
    ELSE [gpu |-> 0, gpumem |-> 0]

\* _find_falcon_bms_process: the Process found, None, or the AttributeError
\* of None.lower() at line 103, which lines 105-106 do not catch
FindFalconBmsProcess(r) ==
    CASE r.lookup = "found" -> "Process"
      [] r.lookup = "absent" -> "None"
      [] r.lookup = "unnamed" -> "AttributeError"

\* lines 188-197: falcon_cpu
FalconCpu(r) ==
    IF FindFalconBmsProcess(r) = "Process" /\ r.procRead = "ok" THEN r.falcon ELSE 0

-----------------------------------------------------------------------------
(* The history: deque(maxlen=history_size) *)

Last(s) == s[Len(s)]

Min(a, b) == IF a <= b THEN a ELSE b

\* DequeAppend of a deque made without maxlen
AppendUnbounded(h, m) == Append(h, m)

\* deque.append with maxlen: the oldest element is dropped when full
DequeAppend(h, m) ==
    IF Len(h) >= HistorySize
    THEN SubSeq(Append(h, m), Len(h) + 2 - HistorySize, Len(h) + 1)
    ELSE Append(h, m)

\* the iterator object of `for m in self.metrics_history`
NoIter == [index |-> 0, counter |-> 0, state |-> 0]

-----------------------------------------------------------------------------
(* Initial state: after PerformanceMonitor(sample_interval=1.0) in main() *)

Init ==
    /\ gpu_available \in BOOLEAN
    /\ providers \in Machines
    /\ running = FALSE
    /\ monitor_thread = "None"
    /\ metrics_history = <<>>
    /\ dequeState = 0
    /\ now = 0
    /\ samplerPc = "unstarted"
    /\ pending = PyNone
    /\ mainPc = "start"
    /\ current = PyNone
    /\ cutoff_time = 0
    /\ iter = NoIter
    /\ recent_metrics = <<>>
    /\ analysis = PyNone
    /\ lastError = ""
    /\ screen = Blank
    /\ interrupted = FALSE
    /\ nCollected = 0
    /\ pushed = <<>>
    /\ pushedAfterStop = FALSE

mainVars == <<mainPc, current, cutoff_time, iter, recent_metrics, analysis,
              lastError, interrupted, screen>>

samplerVars == <<samplerPc, pending, nCollected>>

historyVars == <<metrics_history, dequeState, pushed, pushedAfterStop>>

-----------------------------------------------------------------------------
(* The sampling thread: _monitor_loop *)

\* line 226: while self.running
MonitorWhile ==
    /\ samplerPc = "while"
    /\ IF running
       THEN now < MaxTime /\ samplerPc' = "collect"
       ELSE samplerPc' = "done"
    /\ UNCHANGED <<gpu_available, providers, running, monitor_thread, historyVars, now,
                   pending, nCollected, mainVars>>

\* lines 170-215: the reads and the construction of the SystemMetrics object
CollectMetrics ==
    /\ samplerPc = "collect"
    /\ \E r \in providers :
         /\ FindFalconBmsProcess(r) # "AttributeError"
         /\ LET g == GetGpuMetrics(r, gpu_available) IN
            pending' = SystemMetrics(nCollected + 1, now, r.cpu, r.cores, r.mem,
                                     g.gpu, g.gpumem, FalconCpu(r), r)
    /\ nCollected' = nCollected + 1
    /\ samplerPc' = "classify"
    /\ UNCHANGED <<gpu_available, providers, running, monitor_thread, historyVars, now, mainVars>>

\* lines 188 and 231-232: the process lookup raised; the exception leaves
\* _collect_metrics, nothing is constructed, the loop prints and goes to sleep
CollectMetricsRaises ==
    /\ samplerPc = "collect"
    /\ \E r \in providers : FindFalconBmsProcess(r) = "AttributeError"
    /\ samplerPc' = "sleep"
    /\ UNCHANGED <<gpu_available, providers, running, monitor_thread, historyVars, now,
                   pending, nCollected, mainVars>>

\* lines 217-222
ClassifyMetrics ==
    /\ samplerPc = "classify"
    /\ pending' = Classified(pending, gpu_available)
    /\ samplerPc' = "append"
    /\ UNCHANGED <<gpu_available, providers, running, monitor_thread, historyVars, now,
                   nCollected, mainVars>>

\* line 229: self.metrics_history.append(metrics)
MonitorAppend ==
    /\ samplerPc = "append"
    /\ metrics_history' = DequeAppend(metrics_history, pending)
    /\ dequeState' = dequeState + 1
    /\ pushed' = Append(pushed, pending.id)
    /\ pushedAfterStop' = (pushedAfterStop \/ mainPc = "exit")
    /\ pending' = PyNone
    /\ samplerPc' = "sleep"
    /\ UNCHANGED <<gpu_available, providers, running, monitor_thread, now, nCollected, mainVars>>

\* self.sample_interval as main() sets it (1.0 second), in ticks
sample_interval == 1

\* SleepUntil of a sleep that returns at once
SleepReturnsAtOnce(t) == t

\* the clock when time.sleep(self.sample_interval), called at t, returns
SleepUntil(t) == t + sample_interval

\* lines 230 and 233: time.sleep(self.sample_interval)
MonitorSleep ==
    /\ samplerPc = "sleep"
    /\ now < MaxTime
    /\ now' = SleepUntil(now)
    /\ samplerPc' = "while"
    /\ UNCHANGED <<gpu_available, providers, running, monitor_thread, historyVars,
                   pending, nCollected, mainVars>>

\* time passes; the last tick is left to a sampling cycle under way
Tick ==
    /\ now < MaxTime
    /\ now + 1 < MaxTime \/ samplerPc \in {"unstarted", "while", "done"}
    /\ now' = now + 1
    /\ UNCHANGED <<gpu_available, providers, running, monitor_thread, historyVars,
                   samplerVars, mainVars>>

-----------------------------------------------------------------------------
(* get_bottleneck_analysis *)

RECURSIVE GCD(_, _)
GCD(a, b) == IF b = 0 THEN a ELSE GCD(b, a % b)

\* the rational n/d in lowest terms (d > 0, n >= 0)
Rat(n, d) == LET g == GCD(n, d) IN [num |-> n \div g, den |-> d \div g]

\* a + b
RatAdd(a, b) == Rat(a.num * b.den + b.num * a.den, a.den * b.den)

RECURSIVE SumScores(_, _)
\* sum(scores) for the list avg_scores[component]
SumScores(ms, component) ==
    IF ms = <<>> THEN [num |-> 0, den |-> 1]
    ELSE IF component \in DOMAIN ms[1].bottleneck_score
         THEN RatAdd(ms[1].bottleneck_score[component], SumScores(Tail(ms), component))
         ELSE SumScores(Tail(ms), component)

\* len(avg_scores[component])
CountKey(ms, component) ==
    Cardinality({i \in 1..Len(ms) : component \in DOMAIN ms[i].bottleneck_score})

\* bottleneck_counts[label]
CountLabel(ms, label) == Cardinality({i \in 1..Len(ms) : ms[i].bottleneck = label})

\* one line of advice; `core` is the percentage formatted into the line by
\* {max_core_usage:.0f}, 0 for a line without one
Line(text) == [text |-> text, core |-> 0]

CoreLine(text, mc) == [text |-> text, core |-> mc]

\* the threshold of line 310
SingleCoreAbove == 80

\* lines 311-316
SingleCoreGuidance(mc) ==
    << CoreLine("Single-core bottleneck detected (Core at N%)", mc),
       Line("Falcon BMS is limited by single-threaded performance"),
       Line("Consider overclocking your CPU for better single-core performance"),
       Line("Lower CPU-intensive settings: AI traffic, ground objects, weather complexity") >>

\* lines 318-323
GeneralCpuGuidance ==
    << Line("CPU bottleneck detected - reduce CPU-intensive settings"),
       Line("Close unnecessary background applications"),
       Line("Lower AI traffic and ground object density"),
       Line("Consider upgrading to a faster CPU") >>

\* lines 325-330
MemoryGuidance ==
    << Line("Memory shortage detected - close unnecessary applications"),
       Line("Consider adding more RAM to your system"),
       Line("Lower texture quality in Falcon BMS settings"),
       Line("Check for memory leaks in background processes") >>

\* lines 332-337
GpuGuidance ==
    << Line("GPU bottleneck - lower graphics settings in Falcon BMS"),
       Line("Reduce anti-aliasing and post-processing effects"),
       Line("Lower VR resolution or use dynamic resolution scaling"),
       Line("Check GPU temperatures and fan curves") >>

\* lines 339-344
GpuMemoryGuidance ==
    << Line("GPU memory bottleneck - lower texture quality and resolution"),
       Line("Reduce visual range and object density in VR"),
       Line("Close other GPU-intensive applications"),
       Line("Consider a GPU upgrade with more VRAM") >>

\* lines 346-348
BalancedGuidance(mc) ==
    << Line("System performance appears balanced. No immediate bottlenecks detected.") >>
    \o (IF mc > 60
        THEN << CoreLine("Note: Highest core usage is N% - monitor for single-core limits", mc) >>
        ELSE << >>)

\* CpuGuidance choosing by the overall CPU usage instead of the busiest core
CpuGuidanceByOverall(m) ==
    IF m.cpu_percent > SingleCoreAbove
    THEN SingleCoreGuidance(max_core_usage(m))
    ELSE GeneralCpuGuidance

\* lines 310-323: the CPU branch
CpuGuidance(m) ==
    IF max_core_usage(m) > SingleCoreAbove
    THEN SingleCoreGuidance(max_core_usage(m))
    ELSE GeneralCpuGuidance

\* _get_recommendations
GetRecommendations(m) ==
    IF m.bottleneck = "CPU" THEN CpuGuidance(m)
    ELSE IF m.bottleneck = "Memory" THEN MemoryGuidance
    ELSE IF m.bottleneck = "GPU" THEN GpuGuidance
    ELSE IF m.bottleneck = "GPU_Memory" THEN GpuMemoryGuidance
    ELSE BalancedGuidance(max_core_usage(m))

\* CurrentOf taking the first snapshot of the window
OldestOf(ms) == ms[1]

\* line 286: current = recent_metrics[-1]
CurrentOf(ms) == ms[Len(ms)]

\* lines 271-301: the summary of the window `ms`
WindowSummary(ms) ==
    LET components == UNION {DOMAIN ms[i].bottleneck_score : i \in 1..Len(ms)}
        last == CurrentOf(ms)
    IN  [current_bottleneck |-> last.bottleneck,
         bottleneck_confidence |->
             [c \in components |->
                 LET s == SumScores(ms, c) IN Rat(s.num, s.den * CountKey(ms, c))],
         bottleneck_frequency |->
             [l \in {ms[i].bottleneck : i \in 1..Len(ms)} |-> CountLabel(ms, l)],
         current_metrics |->
             [cpu_percent |-> last.cpu_percent,
              memory_percent |-> last.memory_percent,
              gpu_utilization |-> last.gpu_utilization,
              gpu_memory_percent |-> last.gpu_memory_percent,
              falcon_bms_cpu |-> last.falcon_bms_cpu],
         recommendations |-> GetRecommendations(last)]

\* m.timestamp >= cutoff_time
InWindow(m, cutoff) == m.timestamp >= cutoff

-----------------------------------------------------------------------------
(* The main thread: main(), start_monitoring, print_real_time_status,      *)
(* stop_monitoring                                                         *)

\* positions inside the try block of print_real_time_status
RenderTryPcs ==
    {"r_current", "gba_begin", "gba_next", "gba_fallback", "gba_aggregate",
     "r_display", "r_sleep"}

\* positions inside the try block of main()
MainTryPcs ==
    {"start", "start_create", "start_thread", "wait", "r_while"} \cup RenderTryPcs

\* lines 237-238
StartSetRunning ==
    /\ mainPc = "start"
    /\ running' = (IF ~running THEN TRUE ELSE running)
    /\ mainPc' = (IF ~running THEN "start_create" ELSE "wait")
    /\ UNCHANGED <<gpu_available, providers, monitor_thread, historyVars, now, samplerVars,
                   current, cutoff_time, iter, recent_metrics, analysis,
                   lastError, interrupted, screen>>

\* line 239: threading.Thread(target=self._monitor_loop, daemon=True)
StartCreateThread ==
    /\ mainPc = "start_create"
    /\ monitor_thread' = "created"
    /\ mainPc' = "start_thread"
    /\ UNCHANGED <<gpu_available, providers, running, historyVars, now, samplerVars,
                   current, cutoff_time, iter, recent_metrics, analysis,
                   lastError, interrupted, screen>>

\* lines 240-241: self.monitor_thread.start()
StartThread ==
    /\ mainPc = "start_thread"
    /\ monitor_thread' = "started"
    /\ samplerPc' = "while"
    /\ mainPc' = "wait"
    /\ UNCHANGED <<gpu_available, providers, running, historyVars, now, pending, nCollected,
                   current, cutoff_time, iter, recent_metrics, analysis,
                   lastError, interrupted, screen>>

\* line 436: time.sleep(2), then print_real_time_status is entered
MainWait ==
    /\ mainPc = "wait"
    /\ mainPc' = "r_while"
    /\ UNCHANGED <<gpu_available, providers, running, monitor_thread, historyVars, now,
                   samplerVars, current, cutoff_time, iter, recent_metrics,
                   analysis, lastError, interrupted, screen>>

\* line 354: while self.running
RenderWhile ==
    /\ mainPc = "r_while"
    /\ mainPc' = (IF running THEN "r_current" ELSE "stop_flag")
    /\ UNCHANGED <<gpu_available, providers, running, monitor_thread, historyVars, now,
                   samplerVars, current, cutoff_time, iter, recent_metrics,
                   analysis, lastError, interrupted, screen>>

\* get_current_metrics, line 252
GetCurrentMetrics(h) == IF h # <<>> THEN Last(h) ELSE PyNone

\* lines 356-362: the console is cleared, the latest snapshot is read; with
\* none, "Collecting initial data..." is printed
RenderCurrent ==
    /\ mainPc = "r_current"
    /\ current' = GetCurrentMetrics(metrics_history)
    /\ mainPc' = (IF current' = PyNone THEN "r_sleep" ELSE "gba_begin")
    /\ screen' = Blank
    /\ UNCHANGED <<gpu_available, providers, running, monitor_thread, historyVars, now,
                   samplerVars, cutoff_time, iter, recent_metrics, analysis,
                   lastError, interrupted>>

\* NoDataResult as a summary of nothing, in place of the error
SummaryOfNothing == [current_bottleneck |-> "None", recommendations |-> <<>>]

\* line 262: the result for an empty history
NoDataResult == [error |-> "No metrics data available"]

\* lines 261-266: the empty check, the cutoff, and iter(self.metrics_history)
GbaBegin ==
    /\ mainPc = "gba_begin"
    /\ IF metrics_history = <<>>
       THEN /\ analysis' = NoDataResult
            /\ mainPc' = "r_display"
            /\ UNCHANGED <<cutoff_time, iter, recent_metrics>>
       ELSE /\ cutoff_time' = now - WindowSeconds
            /\ iter' = [index |-> 1, counter |-> Len(metrics_history),
                        state |-> dequeState]
            /\ recent_metrics' = <<>>
            /\ mainPc' = "gba_next"
            /\ UNCHANGED analysis
    /\ UNCHANGED <<gpu_available, providers, running, monitor_thread, historyVars, now,
                   samplerVars, current, lastError, interrupted, screen>>

\* line 266, one step of the comprehension: next() on the deque iterator raises
\* RuntimeError when the deque was mutated since the iterator was made, ends
\* the loop when no element is left, and else yields the next element
GbaNext ==
    /\ mainPc = "gba_next"
    /\ IF iter.state # dequeState
       THEN /\ lastError' = "deque mutated during iteration"
            /\ mainPc' = "r_except"
            /\ iter' = NoIter
            /\ recent_metrics' = <<>>
            /\ UNCHANGED cutoff_time
       ELSE IF iter.counter = 0
       THEN /\ mainPc' = "gba_fallback"
            /\ iter' = NoIter
            /\ UNCHANGED <<lastError, recent_metrics, cutoff_time>>
       ELSE /\ recent_metrics' =
                  (IF InWindow(metrics_history[iter.index], cutoff_time)
                   THEN Append(recent_metrics, metrics_history[iter.index])
                   ELSE recent_metrics)
            /\ iter' = [iter EXCEPT !.index = @ + 1, !.counter = @ - 1]
            /\ UNCHANGED <<lastError, mainPc, cutoff_time>>
    /\ UNCHANGED <<gpu_available, providers, running, monitor_thread, historyVars, now,
                   samplerVars, current, analysis, interrupted, screen>>

\* Fallback taking self.metrics_history[0]
FallbackOldest(recent, h) == IF recent = <<>> THEN <<h[1]>> ELSE recent

\* lines 268-269
Fallback(recent, h) == IF recent = <<>> THEN <<Last(h)>> ELSE recent

GbaFallback ==
    /\ mainPc = "gba_fallback"
    /\ recent_metrics' = Fallback(recent_metrics, metrics_history)
    /\ mainPc' = "gba_aggregate"
    /\ UNCHANGED <<gpu_available, providers, running, monitor_thread, historyVars, now,
                   samplerVars, current, cutoff_time, iter, analysis, lastError,
                   interrupted, screen>>

\* lines 271-301
GbaAggregate ==
    /\ mainPc = "gba_aggregate"
    /\ analysis' = WindowSummary(recent_metrics)
    /\ mainPc' = "r_display"
    /\ UNCHANGED <<gpu_available, providers, running, monitor_thread, historyVars, now,
                   samplerVars, current, cutoff_time, iter, recent_metrics,
                   lastError, interrupted, screen>>

\* lines 381-385: the GPU block
GpuBlock(cur, gpu) == IF gpu THEN "percent" ELSE "Not available"

\* lines 388-393: the Falcon BMS block
FalconBlock(cur) == IF cur.falcon_bms_cpu > 0 THEN "percent" ELSE "Not detected"

\* lines 366-412: the blocks of the dashboard; line 397 raises KeyError on an
\* error result, after the GPU and Falcon BMS blocks are printed
Dashboard(cur, an, gpu) ==
    [gpu |-> GpuBlock(cur, gpu),
     falcon |-> FalconBlock(cur),
     primary |-> IF "error" \in DOMAIN an THEN "" ELSE an.current_bottleneck,
     recommendations |->
         IF "error" \in DOMAIN an THEN <<>>
         ELSE SubSeq(an.recommendations, 1, Min(3, Len(an.recommendations)))]

\* lines 366-412: the dashboard is printed; the locals die with the iteration
RenderDisplay ==
    /\ mainPc = "r_display"
    /\ IF "error" \in DOMAIN analysis
       THEN lastError' = "'current_bottleneck'" /\ mainPc' = "r_except"
       ELSE lastError' = "" /\ mainPc' = "r_sleep"
    /\ screen' = Dashboard(current, analysis, gpu_available)
    /\ current' = PyNone
    /\ recent_metrics' = <<>>
    /\ analysis' = PyNone
    /\ cutoff_time' = 0
    /\ UNCHANGED <<gpu_available, providers, running, monitor_thread, historyVars, now,
                   samplerVars, iter, interrupted>>

\* lines 418-420: except Exception: print, time.sleep(1); the locals and the
\* exception die with the iteration
RenderExcept ==
    /\ mainPc = "r_except"
    /\ mainPc' = "r_while"
    /\ current' = PyNone
    /\ cutoff_time' = 0
    /\ lastError' = ""
    /\ UNCHANGED <<gpu_available, providers, running, monitor_thread, historyVars, now,
                   samplerVars, iter, recent_metrics, analysis, interrupted, screen>>

\* lines 361 and 414: time.sleep
RenderSleep ==
    /\ mainPc = "r_sleep"
    /\ mainPc' = "r_while"
    /\ UNCHANGED <<gpu_available, providers, running, monitor_thread, historyVars, now,
                   samplerVars, current, cutoff_time, iter, recent_metrics,
                   analysis, lastError, interrupted, screen>>

\* Ctrl-C: KeyboardInterrupt is raised in the main thread; inside the render
\* loop's try it is caught at line 416 (break), elsewhere at line 441
Interrupt ==
    /\ ~interrupted
    /\ mainPc \in MainTryPcs \cup {"r_except"}
    /\ interrupted' = TRUE
    /\ mainPc' = (IF mainPc \in RenderTryPcs THEN "r_break" ELSE "shutdown")
    /\ current' = PyNone
    /\ iter' = NoIter
    /\ recent_metrics' = <<>>
    /\ analysis' = PyNone
    /\ cutoff_time' = 0
    /\ lastError' = ""
    /\ UNCHANGED <<gpu_available, providers, running, monitor_thread, historyVars, now,
                   samplerVars, screen>>

\* line 417 (break) or line 442 (print), then the finally clause
MainFinally ==
    /\ mainPc \in {"r_break", "shutdown"}
    /\ mainPc' = "stop_flag"
    /\ UNCHANGED <<gpu_available, providers, running, monitor_thread, historyVars, now,
                   samplerVars, current, cutoff_time, iter, recent_metrics,
                   analysis, lastError, interrupted, screen>>

\* stop_monitoring without the assignment of line 245
StopLeavesRunning == running

\* line 245: the value stop_monitoring stores in self.running
StopRunningValue == FALSE

StopSetFlag ==
    /\ mainPc = "stop_flag"
    /\ running' = StopRunningValue
    /\ mainPc' = "stop_join"
    /\ UNCHANGED <<gpu_available, providers, monitor_thread, historyVars, now, samplerVars,
                   current, cutoff_time, iter, recent_metrics, analysis,
                   lastError, interrupted, screen>>

\* lines 246-248: join returns when the thread has ended; joining a thread
\* that was never started raises RuntimeError
StopJoin ==
    /\ mainPc = "stop_join"
    /\ \/ monitor_thread = "None" /\ mainPc' = "exit"
       \/ monitor_thread = "created" /\ mainPc' = "crashed"
       \/ monitor_thread = "started" /\ samplerPc = "done" /\ mainPc' = "exit"
    /\ UNCHANGED <<gpu_available, providers, running, monitor_thread, historyVars, now,
                   samplerVars, current, cutoff_time, iter, recent_metrics,
                   analysis, lastError, interrupted, screen>>

-----------------------------------------------------------------------------
(* Specifications *)

SamplerNext ==
    \/ MonitorWhile
    \/ CollectMetrics
    \/ CollectMetricsRaises
    \/ ClassifyMetrics
    \/ MonitorAppend
    \/ MonitorSleep

MainNext ==
    \/ StartSetRunning
    \/ StartCreateThread
    \/ StartThread
    \/ MainWait
    \/ RenderWhile
    \/ RenderCurrent
    \/ GbaBegin
    \/ GbaNext
    \/ GbaFallback
    \/ GbaAggregate
    \/ RenderDisplay
    \/ RenderExcept
    \/ RenderSleep
    \/ MainFinally
    \/ StopSetFlag
    \/ StopJoin

Next == SamplerNext \/ MainNext \/ Interrupt \/ Tick

\* the whole program
Spec == Init /\ [][Next]_vars

\* the steps of the sampling thread other than ClassifyMetrics
SamplerOther ==
    \/ MonitorWhile
    \/ CollectMetrics
    \/ CollectMetricsRaises
    \/ MonitorAppend
    \/ MonitorSleep

\* ClassifyMetrics and GbaAggregate as seen on the program counters: each is
\* the only step of Next that makes this change, and is enabled exactly when
\* the counter is at its first value
ClassifyStep == samplerPc = "classify" /\ samplerPc' = "append"

AggregateStep == mainPc = "gba_aggregate" /\ mainPc' = "r_display"

\* the steps of the main thread other than GbaAggregate
MainOther ==
    \/ StartSetRunning
    \/ StartCreateThread
    \/ StartThread
    \/ MainWait
    \/ RenderWhile
    \/ RenderCurrent
    \/ GbaBegin
    \/ GbaNext
    \/ GbaFallback
    \/ RenderDisplay
    \/ RenderExcept
    \/ RenderSleep
    \/ MainFinally
    \/ StopSetFlag
    \/ StopJoin

\* the program with the scheduling of two live threads: a thread that can
\* take a step eventually takes one (every call and every sleep returns).
\* The interrupt and the passing of time are under no obligation.
FairSpec ==
    /\ Spec
    /\ WF_vars(SamplerOther)
    /\ WF_samplerPc(ClassifyStep)
    /\ WF_vars(MainOther)
    /\ WF_mainPc(AggregateStep)

\* _analyze_bottleneck applied to any SystemMetrics: the sampling thread is
\* about to classify an arbitrary metrics object
InitClassify ==
    /\ gpu_available \in BOOLEAN
    /\ providers = ProviderReadings
    /\ running = TRUE
    /\ monitor_thread = "started"
    /\ metrics_history = <<>>
    /\ dequeState = 0
    /\ now = 0
    /\ samplerPc = "classify"
    /\ pending \in AllMetrics
    /\ mainPc = "wait"
    /\ current = PyNone
    /\ cutoff_time = 0
    /\ iter = NoIter
    /\ recent_metrics = <<>>
    /\ analysis = PyNone
    /\ lastError = ""
    /\ screen = Blank
    /\ interrupted = FALSE
    /\ nCollected = 1
    /\ pushed = <<>>
    /\ pushedAfterStop = FALSE

ClassifySpec == InitClassify /\ [][ClassifyMetrics]_vars

\* the SystemMetrics a stored snapshot is made of when the monitor's methods
\* are called directly
SummaryMetrics ==
    { SystemMetrics(1, 0, cpu, cores, mem, gpu, gpumem, falcon, PyNone) :
        cpu \in {10, 88, 94}, cores \in CoreLists, mem \in {40, 85, 97},
        gpu \in {0, 98}, gpumem \in {0, 97}, falcon \in {0, 151} }

\* get_current_metrics and get_bottleneck_analysis called on a monitor that
\* has collected nothing yet, or one snapshot at time 0; the sampling thread
\* sleeps for the length of the call
InitAnalysis ==
    /\ gpu_available \in BOOLEAN
    /\ providers = ProviderReadings
    /\ running = TRUE
    /\ monitor_thread = "started"
    /\ metrics_history \in
           {<<>>} \cup {<<Classified(m, gpu_available)>> : m \in SummaryMetrics}
    /\ dequeState = Len(metrics_history)
    /\ now \in {0, WindowSeconds + 1}
    /\ samplerPc = "sleep"
    /\ pending = PyNone
    /\ mainPc \in {"r_current", "gba_begin"}
    /\ current = PyNone
    /\ cutoff_time = 0
    /\ iter = NoIter
    /\ recent_metrics = <<>>
    /\ analysis = PyNone
    /\ lastError = ""
    /\ screen = Blank
    /\ interrupted = FALSE
    /\ nCollected = Len(metrics_history)
    /\ pushed = [i \in 1..Len(metrics_history) |-> metrics_history[i].id]
    /\ pushedAfterStop = FALSE

AnalysisNext ==
    \/ RenderCurrent
    \/ GbaBegin
    \/ GbaNext
    \/ GbaFallback
    \/ GbaAggregate

AnalysisSpec == InitAnalysis /\ [][AnalysisNext]_vars

-----------------------------------------------------------------------------
(* Properties of the classifier, checked under ClassifySpec *)

\* the sampling thread holds a classified metrics object
JustClassified == samplerPc = "append"

RECURSIVE RatSum(_, _)
\* the exact sum of the normalized scores over the keys ls
RatSum(scores, ls) ==
    IF ls = <<>> THEN [num |-> 0, den |-> 1]
    ELSE RatAdd(scores[ls[1]], RatSum(scores, Tail(ls)))

IsOne(q) == q.den > 0 /\ q.num = q.den

IsZero(q) == q.den > 0 /\ q.num = 0

Resources == {"CPU", "Memory", "GPU", "GPU_Memory"}

\* C1: the score map returned by the classifier holds all five labels, every
\* normalized score lies in [0,1], and the five scores sum to 1 (exact
\* arithmetic).
C1_ScoresSumToOne ==
    JustClassified =>
        LET s == pending.bottleneck_score IN
        /\ DOMAIN s = LabelSet
        /\ \A l \in LabelSet : s[l].den > 0 /\ 0 <= s[l].num /\ s[l].num <= s[l].den
        /\ IsOne(RatSum(s, Labels))

\* C1 witness: a classified snapshot in which three buckets are nonzero
C1_Witness ==
    /\ JustClassified
    /\ pending.bottleneck_score["CPU"].num > 0
    /\ pending.bottleneck_score["Memory"].num > 0
    /\ pending.bottleneck_score["GPU"].num > 0

\* C2: the returned label has the maximum normalized score, and among the
\* labels sharing the maximum it is the first in the order CPU, Memory, GPU,
\* GPU_Memory, None.
C2_LabelIsFirstArgMax ==
    JustClassified =>
        LET s == pending.bottleneck_score IN
        \E i \in 1..Len(Labels) :
            /\ pending.bottleneck = Labels[i]
            /\ \A j \in 1..Len(Labels) : ~RatLess(s[Labels[i]], s[Labels[j]])
            /\ \A j \in 1..(i - 1) : RatLess(s[Labels[j]], s[Labels[i]])

\* C2 witness: CPU and Memory share the maximum score and CPU is returned
C2_Witness ==
    /\ JustClassified
    /\ pending.bottleneck = "CPU"
    /\ pending.bottleneck_score["CPU"].num > 0
    /\ RatEq(pending.bottleneck_score["CPU"], pending.bottleneck_score["Memory"])

\* C5: with the GPU-available flag false the GPU and GPU_Memory buckets are 0
\* before the None rule, before normalization and after it, whatever the
\* snapshot's gpu_utilization and gpu_memory_percent are.
C5_NoGpuNoGpuScore ==
    (JustClassified /\ ~gpu_available) =>
        /\ ResourceScores(pending, gpu_available)["GPU"] = 0
        /\ ResourceScores(pending, gpu_available)["GPU_Memory"] = 0
        /\ NoneRule(ResourceScores(pending, gpu_available))["GPU"] = 0
        /\ NoneRule(ResourceScores(pending, gpu_available))["GPU_Memory"] = 0
        /\ IsZero(pending.bottleneck_score["GPU"])
        /\ IsZero(pending.bottleneck_score["GPU_Memory"])

\* C5 witness: the flag is false and both GPU readings are over their thresholds
C5_Witness ==
    /\ JustClassified
    /\ ~gpu_available
    /\ pending.gpu_utilization > 90
    /\ pending.gpu_memory_percent > 85

\* no scoring rule of lines 122-153 fires for m
NoRuleFires(m, gpu) ==
    /\ \A i \in 1..Len(m.cpu_per_core) : m.cpu_per_core[i] <= 60
    /\ m.cpu_percent <= 85
    /\ m.falcon_bms_cpu <= 100
    /\ m.memory_percent <= 85
    /\ ~gpu \/ (m.gpu_utilization <= 90 /\ m.gpu_memory_percent <= 85)

\* C6: when no scoring rule fires the classifier returns None with scores
\* CPU 0, Memory 0, GPU 0, GPU_Memory 0, None 1.
C6_NothingFiresGivesNone ==
    (JustClassified /\ NoRuleFires(pending, gpu_available)) =>
        /\ pending.bottleneck = "None"
        /\ \A l \in Resources : IsZero(pending.bottleneck_score[l])
        /\ IsOne(pending.bottleneck_score["None"])

\* C6 witness: every input sits exactly on its threshold and nothing fires
C6_Witness ==
    /\ JustClassified
    /\ NoRuleFires(pending, gpu_available)
    /\ gpu_available
    /\ pending.cpu_per_core = <<60, 10>>
    /\ pending.cpu_percent = 85
    /\ pending.falcon_bms_cpu = 100
    /\ pending.memory_percent = 85
    /\ pending.gpu_utilization = 90
    /\ pending.gpu_memory_percent = 85

\* resource r alone is nonzero before the None rule, and is at least 0.3
OnlyBucket(m, gpu, r) ==
    /\ ResourceScores(m, gpu)[r] >= Tenths(3)
    /\ \A o \in Resources \ {r} : ResourceScores(m, gpu)[o] = 0

\* C7: when exactly one resource bucket is nonzero and it is at least 0.3, the
\* None rule does not fire, that resource's normalized score is 1, every other
\* score is 0 and that resource is the label.
C7_SingleBucketWins ==
    JustClassified =>
        \A r \in Resources :
            OnlyBucket(pending, gpu_available, r) =>
                /\ NoneRule(ResourceScores(pending, gpu_available))["None"] = 0
                /\ IsOne(pending.bottleneck_score[r])
                /\ \A o \in LabelSet \ {r} : IsZero(pending.bottleneck_score[o])
                /\ pending.bottleneck = r

\* C7 witness: the CPU bucket alone is nonzero and is exactly 0.3
C7_Witness ==
    /\ JustClassified
    /\ OnlyBucket(pending, gpu_available, "CPU")
    /\ ResourceScores(pending, gpu_available)["CPU"] = Tenths(3)
    /\ pending.bottleneck = "CPU"

-----------------------------------------------------------------------------
(* Properties of the history and of the two threads, checked under Spec *)

\* C3: after n appends into a history of capacity HistorySize the history
\* holds exactly min(n, HistorySize) snapshots, and they are the most recently
\* appended ones in append order.
C3_HistoryIsLastPushes ==
    LET n == Len(pushed)
        k == Min(n, HistorySize)
    IN  /\ Len(metrics_history) = k
        /\ \A i \in 1..k : metrics_history[i].id = pushed[n - k + i]
        /\ \A i, j \in 1..n : pushed[i] = pushed[j] => i = j

\* C3 witness: more snapshots were appended than the history can hold
C3_Witness ==
    /\ Len(pushed) > HistorySize
    /\ Len(metrics_history) = HistorySize

\* the stored snapshots with timestamp >= cutoff, in stored order
SinceCutoff(h, cutoff) ==
    LET Test(m) == InWindow(m, cutoff) IN SelectSeq(h, Test)

\* C4: the sequence that get_bottleneck_analysis analyses is never empty, and
\* when no stored snapshot has timestamp >= cutoff it is the one-element
\* sequence holding the latest snapshot.
C4_FallbackToLatest ==
    /\ [](mainPc = "gba_aggregate" => recent_metrics # <<>>)
    /\ [][(mainPc = "gba_fallback" /\ mainPc' = "gba_aggregate") =>
            /\ metrics_history # <<>>
            /\ recent_metrics' # <<>>
            /\ SinceCutoff(metrics_history, cutoff_time) = <<>> =>
                   recent_metrics' = <<Last(metrics_history)>>]_vars

\* C4 witness: two snapshots are stored, neither is in the window, and the
\* analysed sequence is the latest one alone
C4_Witness ==
    /\ mainPc = "gba_aggregate"
    /\ Len(metrics_history) = 2
    /\ SinceCutoff(metrics_history, cutoff_time) = <<>>
    /\ recent_metrics = <<Last(metrics_history)>>

FullyClassified(m) ==
    /\ m.bottleneck \in LabelSet
    /\ DOMAIN m.bottleneck_score = LabelSet

\* C8: every snapshot in the history, and every snapshot a reader holds
\* (current, recent_metrics), has one of the five labels and a score map over
\* all five labels, at every interleaving with the sampling thread.
C8_VisibleSnapshotsClassified ==
    /\ \A i \in 1..Len(metrics_history) : FullyClassified(metrics_history[i])
    /\ current # PyNone => FullyClassified(current)
    /\ \A i \in 1..Len(recent_metrics) : FullyClassified(recent_metrics[i])

\* C8 witness: a reader holds a snapshot while the sampling thread holds a
\* constructed, not yet classified one
C8_Witness ==
    /\ current # PyNone
    /\ recent_metrics # <<>>
    /\ samplerPc = "classify"
    /\ pending.bottleneck = ""

\* C9: a window scan that interleaves with appends by the sampling thread
\* never fails, and when it ends it has collected exactly the in-window
\* snapshots of the history as it is at that instant, in stored order.
C9_ScanSafeUnderAppends ==
    [][mainPc = "gba_next" =>
         /\ mainPc' # "r_except"
         /\ mainPc' = "gba_fallback" =>
                recent_metrics = SinceCutoff(metrics_history, cutoff_time)]_vars

\* the sampling thread is not running: never started, or returned
SamplerStopped == samplerPc \in {"unstarted", "done"}

\* the main thread has left stop_monitoring: by return, or by the
\* RuntimeError of joining a thread that was never started
MainStopped == mainPc \in {"exit", "crashed"}

\* C10: after the interrupt the render loop is left, the running flag is
\* cleared and the sampling thread ends; the sampling thread ends only at its
\* loop test, so a collection under way is classified and appended first (the
\* sampling thread lets go of a constructed snapshot only by appending it, and
\* eventually does); and nothing is appended after stop_monitoring has returned.
C10_StopsBothActivities ==
    /\ interrupted ~> (MainStopped /\ ~running /\ SamplerStopped)
    /\ [][interrupted => mainPc' \notin MainTryPcs \cup {"r_except"}]_vars
    /\ [][samplerPc' = "done" => samplerPc \in {"while", "done"}]_vars
    /\ (pending # PyNone) ~> (pending = PyNone)
    /\ [][(pending # PyNone /\ pending' # pending) =>
            \/ pending' = Classified(pending, gpu_available)
            \/ pending' = PyNone /\ pushed' = Append(pushed, pending.id)]_vars
    /\ [](mainPc = "exit" => SamplerStopped /\ ~running)
    /\ []~pushedAfterStop

\* C10 witness: stop_monitoring has cleared the flag and waits in join while
\* the sampling thread still holds a classified snapshot to append
C10_Witness ==
    /\ interrupted
    /\ mainPc = "stop_join"
    /\ ~running
    /\ samplerPc = "append"
    /\ FullyClassified(pending)

-----------------------------------------------------------------------------
(* Properties of the collection step, checked under Spec *)

\* the snapshot m holds the values of the pass r, with zero in place of each
\* metric whose read failed and in no other place
Absorbed(m, r, gpu) ==
    /\ m.cpu_percent = r.cpu
    /\ m.cpu_per_core = r.cores
    /\ m.memory_percent = r.mem
    /\ m.gpu_utilization = (IF gpu /\ r.gpuRead = "ok" THEN r.gpu ELSE 0)
    /\ m.gpu_memory_percent = (IF gpu /\ r.gpuRead = "ok" THEN r.gpumem ELSE 0)
    /\ m.falcon_bms_cpu =
           (IF r.lookup = "found" /\ r.procRead = "ok" THEN r.falcon ELSE 0)

\* C11: in every sampling cycle a failure of the GPU read, of the process
\* lookup or of the process read is absorbed: the collection step constructs
\* a snapshot (which the cycle then classifies and appends) holding the zero
\* sentinel for the failed metric only, and no failure leaves the step.
C11_ReadFailuresAbsorbed ==
    [][(samplerPc = "collect" /\ samplerPc' # "collect") =>
         /\ samplerPc' = "classify"
         /\ Absorbed(pending', pending'.source, gpu_available)]_vars

-----------------------------------------------------------------------------
(* Properties of the dashboard, checked under Spec *)

\* the pass r had no GPU values: GPUtil is missing, lists no GPU, or raised
GpuUnavailable(r, gpu) == ~gpu \/ r.gpuRead # "ok"

\* the pass r had no Falcon BMS values: no process found, or not readable
FalconUnavailable(r) == r.lookup # "found" \/ r.procRead # "ok"

\* the render loop prints the dashboard of the snapshot it holds
DisplayStep == mainPc = "r_display" /\ mainPc' = "r_sleep"

\* C13: whenever a source was unavailable for the displayed snapshot (GPU
\* absent or its read failed; Falcon BMS not running or not readable) the
\* dashboard shows the "Not available" / "Not detected" notice for it instead
\* of a numeric zero, and "Not detected" is shown only when Falcon BMS was in
\* fact not found or not readable.
C13_UnavailableSourcesAreNoticed ==
    [][DisplayStep =>
         /\ GpuUnavailable(current.source, gpu_available) =>
                screen'.gpu = "Not available"
         /\ FalconUnavailable(current.source) => screen'.falcon = "Not detected"
         /\ screen'.falcon = "Not detected" => FalconUnavailable(current.source)]_vars

-----------------------------------------------------------------------------
(* Properties of get_bottleneck_analysis, checked under AnalysisSpec *)

\* get_bottleneck_analysis has returned a summary
SummaryReturned == mainPc = "r_display" /\ "recommendations" \in DOMAIN analysis

\* a snapshot that shares with m the label and the busiest core, nothing else
LabelAndCoreOnly(m) ==
    [m EXCEPT !.timestamp = 0, !.cpu_percent = 0, !.memory_percent = 0,
              !.gpu_utilization = 0, !.gpu_memory_percent = 0,
              !.falcon_bms_cpu = 0, !.bottleneck_score = <<>>,
              !.cpu_per_core = IF max_core_usage(m) = 0 THEN <<>>
                               ELSE <<max_core_usage(m)>>]

\* the first line of each branch of the generator
HeadLine(label, mc) ==
    CASE label = "CPU" /\ mc > 80 -> "Single-core bottleneck detected (Core at N%)"
      [] label = "CPU" /\ mc <= 80 -> "CPU bottleneck detected - reduce CPU-intensive settings"
      [] label = "Memory" -> "Memory shortage detected - close unnecessary applications"
      [] label = "GPU" -> "GPU bottleneck - lower graphics settings in Falcon BMS"
      [] label = "GPU_Memory" -> "GPU memory bottleneck - lower texture quality and resolution"
      [] OTHER -> "System performance appears balanced. No immediate bottlenecks detected."

C15_EmptyHistoryGivesError ==
    /\ [][(mainPc = "gba_begin" /\ metrics_history = <<>> /\ mainPc' # mainPc) =>
            /\ mainPc' = "r_display"
            /\ DOMAIN analysis' = {"error"}
            /\ UNCHANGED <<cutoff_time, iter, recent_metrics>>]_vars
    /\ [][(mainPc = "r_current" /\ metrics_history = <<>> /\ mainPc' # mainPc) =>
            /\ current' = PyNone
            /\ mainPc' = "r_sleep"]_vars

\* C15 witness: get_bottleneck_analysis has returned on an empty history
C15_Witness ==
    /\ mainPc = "r_display"
    /\ metrics_history = <<>>
    /\ analysis # PyNone
    /\ recent_metrics = <<>>

-----------------------------------------------------------------------------
(* Further properties of the classifier, checked under ClassifySpec *)

\* the largest element of a list, 0 for the empty list
Largest(cores) ==
    IF cores = <<>> THEN 0
    ELSE CHOOSE x \in {cores[i] : i \in 1..Len(cores)} :
             \A j \in 1..Len(cores) : cores[j] <= x

\* the raw CPU bucket of the classified snapshot, in 1/Unit: the numerator of
\* its normalized score (the denominator is the sum of the buckets)
RawBucket(m, l) == m.bottleneck_score[l].num

\* C16: the CPU bucket before normalization is tier(max core) + excess(overall)
\* + tier(process): 0.8 / 0.5 / 0.3 / 0 for the busiest core over 85 / 70 / 60
\* / not, (overall - 85)/30 for overall over 85 (uncapped) and else 0, 0.4 /
\* 0.2 / 0 for the process over 150 / 100 / not; comparisons are strict and one
\* tier of a group is added at most.
C16_CpuBucketFormula ==
    JustClassified =>
        LET mc == Largest(pending.cpu_per_core)
            overall == pending.cpu_percent
            target == pending.falcon_bms_cpu
            tier == CASE mc > 85 -> (8 * Unit) \div 10
                      [] mc > 70 /\ mc <= 85 -> (5 * Unit) \div 10
                      [] mc > 60 /\ mc <= 70 -> (3 * Unit) \div 10
                      [] OTHER -> 0
            excess == IF overall > 85 THEN ((overall - 85) * Unit) \div 30 ELSE 0
            process == CASE target > 150 -> (4 * Unit) \div 10
                         [] target > 100 /\ target <= 150 -> (2 * Unit) \div 10
                         [] OTHER -> 0
        IN  /\ RawBucket(pending, "CPU") = tier + excess + process
            /\ pending.bottleneck_score["CPU"].den =
                   SumValues(NoneRule(ResourceScores(pending, gpu_available)), Labels)

\* C16 witness: the busiest core, the overall usage and the process all sit
\* exactly on a threshold, and the bucket is 0.5 + 0 + 0.2
C16_Witness ==
    /\ JustClassified
    /\ pending.cpu_per_core = <<85, 85>>
    /\ pending.cpu_percent = 85
    /\ pending.falcon_bms_cpu = 150
    /\ RawBucket(pending, "CPU") = Tenths(5) + Tenths(2)

\* every resource bucket of m is below 0.3 before the None rule
NoneRuleFires(m, gpu) == \A r \in Resources : ResourceScores(m, gpu)[r] < Tenths(3)

\* the sum of the four resource buckets of m, in 1/Unit
ResourceSum(m, gpu) ==
    ResourceScores(m, gpu)["CPU"] + ResourceScores(m, gpu)["Memory"]
        + ResourceScores(m, gpu)["GPU"] + ResourceScores(m, gpu)["GPU_Memory"]

\* C17: when every resource bucket is below 0.3 and some bucket is nonzero,
\* the None bucket is 1.0 and the resource buckets are kept: the normalized
\* None score is 1/(1 + sum of the resource buckets), below 1, each nonzero
\* bucket keeps the nonzero score bucket/(1 + sum), and the label is None.
C17_NoneScoreIsDiluted ==
    (JustClassified /\ NoneRuleFires(pending, gpu_available)
                    /\ ResourceSum(pending, gpu_available) > 0) =>
        LET total == [num |-> Unit + ResourceSum(pending, gpu_available), den |-> Unit]
            s == pending.bottleneck_score
        IN  /\ pending.bottleneck = "None"
            /\ RatEq(s["None"], [num |-> total.den, den |-> total.num])
            /\ RatLess(s["None"], [num |-> 1, den |-> 1])
            /\ \A r \in Resources :
                   /\ RatEq(s[r], [num |-> ResourceScores(pending, gpu_available)[r],
                                   den |-> total.num])
                   /\ ResourceScores(pending, gpu_available)[r] > 0 => s[r].num > 0

\* C17 witness: the CPU and Memory buckets are nonzero and below 0.3, and the
\* label is None
C17_Witness ==
    /\ JustClassified
    /\ NoneRuleFires(pending, gpu_available)
    /\ ResourceScores(pending, gpu_available)["CPU"] > 0
    /\ ResourceScores(pending, gpu_available)["Memory"] > 0
    /\ pending.bottleneck = "None"
    /\ ~IsOne(pending.bottleneck_score["None"])

\* C18: the sum of the five buckets before normalization is positive for
\* every snapshot, so the division of line 163 always happens and the stored
\* scores sum to 1, never to 0: when every resource bucket is below 0.3 (all
\* zero included) the None bucket is 1.0.
C18_TotalScoreIsPositive ==
    JustClassified =>
        /\ SumValues(NoneRule(ResourceScores(pending, gpu_available)), Labels) > 0
        /\ NoneRuleFires(pending, gpu_available) => RawBucket(pending, "None") = Unit
        /\ RatSum(pending.bottleneck_score, Labels).num > 0
        /\ pending.bottleneck_score["None"].den =
               RawBucket(pending, "None") + ResourceSum(pending, gpu_available)

\* C18 witness: a snapshot without per-core readings whose four resource
\* buckets are all zero
C18_Witness ==
    /\ JustClassified
    /\ pending.cpu_per_core = <<>>
    /\ ResourceSum(pending, gpu_available) = 0
    /\ RawBucket(pending, "None") = Unit
    /\ pending.bottleneck_score["None"].den = Unit

-----------------------------------------------------------------------------
(* Properties of the window summary, checked under Spec *)

\* the fields the summary passes through from its current snapshot
Passthrough(m) ==
    [cpu_percent |-> m.cpu_percent,
     memory_percent |-> m.memory_percent,
     gpu_utilization |-> m.gpu_utilization,
     gpu_memory_percent |-> m.gpu_memory_percent,
     falcon_bms_cpu |-> m.falcon_bms_cpu]

-----------------------------------------------------------------------------
(* The classifier and the recommendations, checked under ClassifySpec *)

\* C20: a classified snapshot is labelled None if and only if its four
\* resource buckets are all below 0.3; a snapshot labelled None therefore has
\* no core over 60, and the recommendations for a snapshot that is stored
\* never hold the extra "highest core usage" line of the None branch.
C20_NoneIffAllBucketsLow ==
    JustClassified =>
        /\ pending.bottleneck = "None" <=>
               (\A r \in Resources : RawBucket(pending, r) < (3 * Unit) \div 10)
        /\ pending.bottleneck = "None" =>
               /\ Largest(pending.cpu_per_core) <= 60
               /\ Len(GetRecommendations(pending)) = 1
        /\ \A i \in 1..Len(GetRecommendations(pending)) :
               GetRecommendations(pending)[i].text
                   # "Note: Highest core usage is N% - monitor for single-core limits"

\* C20 witness: a snapshot labelled None whose busiest core is at 60 exactly
\* and whose Memory bucket is nonzero
C20_Witness ==
    /\ JustClassified
    /\ pending.bottleneck = "None"
    /\ Largest(pending.cpu_per_core) = 60
    /\ RawBucket(pending, "Memory") > 0
    /\ Len(GetRecommendations(pending)) = 1

-----------------------------------------------------------------------------
(* One render tick: the two reads of the history, checked under Spec *)

\* C21: when the dashboard of one render tick is printed, the snapshot read at
\* line 358, whose timestamp and raw metrics are shown, is the snapshot that
\* get_bottleneck_analysis took as `current` at line 286, from which the
\* primary bottleneck and the recommendations shown are derived, whatever the
\* sampling thread appended in between.
C21_DisplayedSnapshotIsAnalysed ==
    (mainPc = "r_display" /\ "error" \notin DOMAIN analysis) =>
        /\ current # PyNone
        /\ recent_metrics # <<>>
        /\ CurrentOf(recent_metrics) = current

=============================================================================
